---- MODULE Spec2Model ----
(***************************************************************************)
(* PowerWatch build scripts.                                               *)
(*                                                                         *)
(* build_database_ARG.py reads the rows of one spreadsheet tab, groups     *)
(* contiguous rows into plants (a stateful accumulator held in the         *)
(* current_* names) and stores one PowerPlant per group in                 *)
(* plants_dictionary.  build_database_BRA.py reads the rows of one HTML    *)
(* table and stores one PowerPlant per row.  The ARG script then looks up  *)
(* every plant in two lookup tables (location, commissioning year).        *)
(* utils/powerwatch_summary.py computes one summary per requested country  *)
(* from the table powerplants and writes one row per country.              *)
(*                                                                         *)
(* Numbers.  Python floats are modelled in fixed point: the integer n      *)
(* stands for the number n / Scale.  With raw cells that are whole numbers *)
(* every product and sum of the scripts is exact in this representation.   *)
(***************************************************************************)
EXTENDS Integers, Sequences, FiniteSets, TLC

VARIABLES
    \* ---- build_database_ARG.py
    pc,                         \* position of the script
    ws,                         \* rows of sheet TAB from START_ROW on, as far as read
    current_plant_name,
    current_owner,
    current_fuel_types,
    current_capacity_sum,
    current_generation_sum,
    count,
    plants_dictionary,
    fuel_sharers,               \* ids of the plants whose fuel attribute is the very
                                \* set object that current_fuel_types names
    locations_dictionary,       \* plant name -> coordinates, from LOCATION_FILE_NAME
    commissioning_years_dictionary, \* plant name -> year, from COMMISSIONING_YEAR_FILE_NAME
    location_not_found,         \* the plants (their ids) appended, in order
    year_not_found,             \* the plants (their ids) appended, in order
    visited,                    \* the plants the enrichment loop is done with
    \* ---- build_database_BRA.py
    pc_BRA,                     \* position of the script
    plant_coordinates,          \* CEG id -> coordinates, from COORDINATE_FILE
    plant_table,                \* the rows of the plant table between header and footer
    row_index,                  \* rows of plant_table the loop is done with
    owner,
    found_coordinates_count,
    plants_dictionary_BRA,
    \* ---- utils/powerwatch_summary.py
    pc_SUM,                     \* position of the script
    args_country,               \* args.country
    database_file,              \* the rows of the file args.input
    db_conn,                    \* the sqlite database with its table powerplants
    country_summaries,
    summarized,                 \* codes the loop of line 235 is done with
    fout,                       \* the file args.output
    written                     \* codes the loop of line 242 is done with

varsARG == << pc, ws, current_plant_name, current_owner, current_fuel_types,
              current_capacity_sum, current_generation_sum, count, plants_dictionary,
              fuel_sharers, locations_dictionary, commissioning_years_dictionary,
              location_not_found, year_not_found, visited >>

\* the names of the enrichment
varsEnrich == << locations_dictionary, commissioning_years_dictionary,
                 location_not_found, year_not_found, visited >>

varsBRA == << pc_BRA, plant_coordinates, plant_table, row_index, owner,
              found_coordinates_count, plants_dictionary_BRA >>

varsSUM == << pc_SUM, args_country, database_file, db_conn, country_summaries,
              summarized, fout, written >>

vars == << varsARG, varsBRA, varsSUM >>

(***************************************************************************)
(* Bounds of the model.                                                    *)
(***************************************************************************)
\* longest table (data rows from START_ROW on) a run of the ARG script reads
MaxRows == 4
\* longest plant table a run of the BRA script reads
MaxTableRows == 3
\* most plants the database file of a run of the summary script holds
MaxPlants == 3

(***************************************************************************)
(* Fixed-point numbers.                                                    *)
(***************************************************************************)
\* n stands for n / Scale
Scale == 1000

\* the product of two fixed-point numbers
Times(a, b) == (a * b) \div Scale

(***************************************************************************)
(* Parameters of build_database_ARG.py.                                    *)
(***************************************************************************)
SAVE_CODE == "ARG"
\* 0.001: capacity values are given in kW in the raw data
CAPACITY_CONVERSION_TO_MW == 1
\* 0.001: generation values are given in MWh in the raw data
GENERATION_CONVERSION_TO_GWH == 1
START_ROW == 8
AISLADO == "AISLADO"

(***************************************************************************)
(* The powerwatch library (imported as pw; its file is not part of the     *)
(* sources at hand, so these follow the specification's description).      *)
(***************************************************************************)
NO_DATA_UNICODE == ""
NO_DATA_SET == {}
NO_DATA_NUMERIC == "None"

\* pw.format_string: the text with surrounding whitespace removed; the
\* no-data value for an empty text
format_string(s) ==
    CASE s = "Plant B " -> "Plant B"
      [] s = " "        -> NO_DATA_UNICODE
      [] s = " SADI"    -> "SADI"
      [] s = "Ventos "  -> "Ventos"
      [] OTHER          -> s

\* pw.standardize_fuel with the thesaurus of pw.make_fuel_thesaurus: the set
\* of canonical fuels named by a raw label; a label the thesaurus does not
\* know names none
standardize_fuel(s) ==
    CASE s = "GAS"   -> {"Gas"}
      [] s = "HYDRO" -> {"Hydro"}
      [] OTHER       -> NO_DATA_SET

\* pw.make_id: source code and sequence number
make_id(code, n) == << code, n >>

\* pw.LocationObject(pw.NO_DATA_UNICODE, latitude, longitude)
LocationObject(latitude, longitude) == << latitude, longitude >>

\* pw.PowerPlant(...) as the ARG script calls it; location and
\* commissioning year keep their no-data defaults
PowerPlant(idnr, name, plant_owner, fuel, capacity, gwh) ==
    [ idnr |-> idnr, name |-> name, owner |-> plant_owner, fuel |-> fuel,
      capacity |-> capacity, generation |-> gwh,
      location |-> << NO_DATA_NUMERIC, NO_DATA_NUMERIC >>,
      commissioning_year |-> NO_DATA_NUMERIC ]

(***************************************************************************)
(* Cells and rows of the spreadsheet.                                      *)
(*                                                                         *)
(* A text cell is a string.  The capacity and generation cells are either  *)
(* a number (xlrd delivers a float) or something float() rejects (an empty *)
(* cell, a text).                                                          *)
(***************************************************************************)
Number(n) == [ numeric |-> TRUE,  value |-> n ]
NotANumber == [ numeric |-> FALSE, value |-> 0 ]

\* float(cell) succeeds
CanFloat(cell) == cell.numeric
\* float(cell), in fixed point
Float(cell) == cell.value * Scale

Row(row_owner, name, fuel, grid, capacity, generation) ==
    [ owner |-> row_owner, name |-> name, fuel |-> fuel, grid |-> grid,
      capacity |-> capacity, generation |-> generation ]

\* rows the sheet may hold: plant rows, additional-unit rows, islanded rows,
\* rows with unreadable numbers, blank and total rows
SourceRows ==
    { Row("Owner P", "Plant A",  "GAS",   "SADI",    Number(1000), Number(500)),
      Row("Owner Q", "Plant B ", "HYDRO", " SADI",   Number(2000), Number(1000)),
      Row("Owner Q", "Plant B ", "HYDRO", "SADI",    NotANumber,   Number(1000)),
      Row("Owner P", "Plant A",  "GAS",   "SADI",    Number(1000), NotANumber),
      Row("Owner P", "Plant A",  "GAS",   "AISLADO", Number(1000), Number(500)),
      Row("",        "",         "GAS",   "SADI",    Number(500),  Number(200)),
      Row("",        " ",        "HYDRO", "SADI",    Number(500),  Number(200)),
      Row("",        "",         "GAS",   "SADI",    NotANumber,   Number(200)),
      Row("",        "",         "GAS",   "SADI",    Number(0 - 300), Number(0 - 100)),
      Row("",        "",         "HYDRO", "AISLADO", Number(500),  Number(200)),
      Row("",        "",         "",      "",        NotANumber,   NotANumber),
      Row("",        "TOTAL",    "",      "",        Number(3500), Number(1700)),
      Row("",        "",         "",      "AISLADO", NotANumber,   NotANumber),
      Row("Owner Q", "Plant B ", "HYDRO", "AISLADO", NotANumber,   NotANumber),
      Row("",        "",         "HYDRO", "SADI",    Number(500),  NotANumber),
      Row("Owner R", "Plant C",  "XYZ",   "SADI",    Number(700),  Number(300)) }

\* the sheet row the loop reads next, and the row of the sheet at an index
row_id == START_ROW + Len(ws)
row_values(r) == ws[r - START_ROW + 1]

(***************************************************************************)
(* build_database_ARG.py: the row grouping.                                *)
(***************************************************************************)
\* the counter left as it is
NextCountStuck(c) == c

\* count += 1
NextCount(c) == c + 1

\* plants_dictionary[idnr] = new_plant, with the PowerPlant built from the
\* accumulator
AddPlant(dict, c) ==
    LET idnr == make_id(SAVE_CODE, c)
        new_plant == PowerPlant(idnr, current_plant_name, current_owner,
                                current_fuel_types, current_capacity_sum,
                                current_generation_sum)
    IN  [ k \in (DOMAIN dict) \cup {idnr} |->
            IF k = idnr THEN new_plant ELSE dict[k] ]

\* a truthy text
Truthy(s) == s # ""

\* a plant counted as open whatever the name holds
IsOpenAlways(name) == TRUE

\* lines 106 and 141: if current_plant_name
IsOpen(name) == Truthy(name)

\* lines 122-126 and 127-131: float(cell) * conversion, 0.0 when float() raises
ReadOrZero(cell, conversion) ==
    IF CanFloat(cell) THEN Times(Float(cell), conversion) ELSE 0

\* the unit's value assigned in place of added
AddUnitOverwrite(sum, cell, conversion) == Times(Float(cell), conversion)

\* lines 135-136: sum += float(cell) * conversion
AddUnit(sum, cell, conversion) == sum + Times(Float(cell), conversion)

\* the row's fuel bound to the name in place of merged into the set
UnionFuelRebind(fuels, label) == standardize_fuel(format_string(label))

\* line 137: current_fuel_types.update(pw.standardize_fuel(row_fuel, fuel_thesaurus))
UnionFuel(fuels, label) == fuels \cup standardize_fuel(format_string(label))

\* the set object kept and refilled in place: the plants built from it still
\* share it
SharersKept(sharers) == sharers

\* lines 120 and 155: current_fuel_types is bound to a new set object
\* (the result of pw.standardize_fuel, a copy of pw.NO_DATA_SET), which no
\* plant holds
SharersAfterRebind(sharers) == {}

\* the fuel attribute of the plants that hold the set object being updated
\* in place
UpdateShared(dict, sharers, fuels) ==
    [ k \in DOMAIN dict |->
        IF k \in sharers THEN [ dict[k] EXCEPT !.fuel = fuels ] ELSE dict[k] ]

\* the reset to a row without line 121: the owner of the plant before stays
ResetToRowKeepOwner(rv) ==
    /\ current_plant_name' = format_string(rv.name)
    /\ current_fuel_types' = standardize_fuel(format_string(rv.fuel))
    /\ current_owner' = current_owner
    /\ current_capacity_sum' = ReadOrZero(rv.capacity, CAPACITY_CONVERSION_TO_MW)
    /\ current_generation_sum' = ReadOrZero(rv.generation, GENERATION_CONVERSION_TO_GWH)

\* lines 118-131: reset all current values to this row
ResetToRow(rv) ==
    /\ current_plant_name' = format_string(rv.name)
    /\ current_fuel_types' = standardize_fuel(format_string(rv.fuel))
    /\ current_owner' = format_string(rv.owner)
    /\ current_capacity_sum' = ReadOrZero(rv.capacity, CAPACITY_CONVERSION_TO_MW)
    /\ current_generation_sum' = ReadOrZero(rv.generation, GENERATION_CONVERSION_TO_GWH)

\* the reset to null without lines 157-158: the sums stay
ResetToNullKeepSums ==
    /\ current_plant_name' = NO_DATA_UNICODE
    /\ current_fuel_types' = NO_DATA_SET
    /\ current_owner' = NO_DATA_UNICODE
    /\ UNCHANGED << current_capacity_sum, current_generation_sum >>

\* lines 153-158: reset all current values to null
ResetToNull ==
    /\ current_plant_name' = NO_DATA_UNICODE
    /\ current_fuel_types' = NO_DATA_SET
    /\ current_owner' = NO_DATA_UNICODE
    /\ current_capacity_sum' = 0
    /\ current_generation_sum' = 0

\* the BRA script is not run
BRANotRun ==
    /\ pc_BRA = "off"
    /\ plant_coordinates = << >>
    /\ plant_table = << >>
    /\ row_index = 0
    /\ owner = ""
    /\ found_coordinates_count = 0
    /\ plants_dictionary_BRA = << >>

\* the summary script is not run
SUMNotRun ==
    /\ pc_SUM = "off"
    /\ args_country = [ is_none |-> TRUE, list |-> << >> ]
    /\ database_file = << >>
    /\ db_conn = [ open |-> FALSE, powerplants |-> << >> ]
    /\ country_summaries = << >>
    /\ summarized = 0
    /\ fout = [ opened |-> FALSE, header |-> << >>, rows |-> << >> ]
    /\ written = 0

\* The lookup files of the ARG script.  A file is the sequence of its rows
\* after the header; the cells are texts.
LOCATIONS_NONE == << >>
LOCATIONS_A    == << << "Plant A", "-34.6", "-58.4" >> >>
LOCATIONS_AB   == << << "Plant A", "-34.6", "-58.4" >>, << "Plant B ", "-31.4", "-64.2" >> >>
YEARS_NONE     == << >>
YEARS_B        == << << "Plant B ", "1998" >> >>
YEARS_A        == << << "Plant A", "1975" >>, << "Plant A", "1976" >> >>

\* the lookup files a run may read: location file and commissioning-year file
LookupFiles ==
    { << LOCATIONS_NONE, YEARS_NONE >>,
      << LOCATIONS_A,    YEARS_B >>,
      << LOCATIONS_AB,   YEARS_A >> }

\* lines 62-67: locations_dictionary[pw.format_string(row[0])] = [row[1],row[2]]
RECURSIVE ReadLocations(_)
ReadLocations(rows) ==
    IF Len(rows) = 0 THEN << >>
    ELSE LET before == ReadLocations(SubSeq(rows, 1, Len(rows) - 1))
             last == rows[Len(rows)]
             key == format_string(last[1])
         IN  [ k \in (DOMAIN before) \cup {key} |->
                 IF k = key THEN << last[2], last[3] >> ELSE before[k] ]

\* lines 70-75: commissioning_years_dictionary[pw.format_string(row[0])] = row[1]
RECURSIVE ReadYears(_)
ReadYears(rows) ==
    IF Len(rows) = 0 THEN << >>
    ELSE LET before == ReadYears(SubSeq(rows, 1, Len(rows) - 1))
             last == rows[Len(rows)]
             key == format_string(last[1])
         IN  [ k \in (DOMAIN before) \cup {key} |->
                 IF k = key THEN last[2] ELSE before[k] ]

\* lines 56-82: the two lookup files have been read (lines 62-75) and the
\* sheet is open.  Before the first data row is read the current_* names are
\* unbound; the model holds the null values in them.
InitARG ==
    /\ BRANotRun
    /\ SUMNotRun
    /\ pc = "first"
    /\ ws = << >>
    /\ current_plant_name = NO_DATA_UNICODE
    /\ current_owner = NO_DATA_UNICODE
    /\ current_fuel_types = NO_DATA_SET
    /\ current_capacity_sum = 0
    /\ current_generation_sum = 0
    /\ count = 1
    /\ plants_dictionary = << >>
    /\ fuel_sharers = {}
    /\ \E files \in LookupFiles :
          /\ locations_dictionary = ReadLocations(files[1])
          /\ commissioning_years_dictionary = ReadYears(files[2])
    /\ location_not_found = << >>
    /\ year_not_found = << >>
    /\ visited = {}

\* ws.row_values(START_ROW) on a sheet that ends before START_ROW
NoFirstRow ==
    /\ pc = "first"
    /\ pc' = "IndexError"
    /\ UNCHANGED << ws, current_plant_name, current_owner, current_fuel_types,
                    current_capacity_sum, current_generation_sum, count,
                    plants_dictionary, fuel_sharers >>
    /\ UNCHANGED varsEnrich
    /\ UNCHANGED << varsBRA, varsSUM >>

\* lines 84-89: the first data row sets the accumulator; float() is not guarded
FirstRow(rv0) ==
    /\ pc = "first"
    /\ ws' = Append(ws, rv0)
    /\ IF CanFloat(rv0.capacity) /\ CanFloat(rv0.generation)
       THEN /\ pc' = "loop"
            /\ current_plant_name' = format_string(rv0.name)
            /\ current_owner' = format_string(rv0.owner)
            /\ current_fuel_types' = standardize_fuel(rv0.fuel)
            /\ current_capacity_sum' = Times(Float(rv0.capacity), CAPACITY_CONVERSION_TO_MW)
            /\ current_generation_sum' = Times(Float(rv0.generation), GENERATION_CONVERSION_TO_GWH)
       ELSE \* ValueError at line 88 or 89; the names bound before it stay bound
            /\ pc' = "ValueError"
            /\ current_plant_name' = format_string(rv0.name)
            /\ current_owner' = format_string(rv0.owner)
            /\ current_fuel_types' = standardize_fuel(rv0.fuel)
            /\ current_capacity_sum' =
                 IF CanFloat(rv0.capacity)
                 THEN Times(Float(rv0.capacity), CAPACITY_CONVERSION_TO_MW)
                 ELSE current_capacity_sum
            /\ UNCHANGED current_generation_sum
    /\ fuel_sharers' = {}
    /\ UNCHANGED << count, plants_dictionary >>
    /\ UNCHANGED varsEnrich
    /\ UNCHANGED << varsBRA, varsSUM >>

\* lines 99-100: an islanded row is skipped
IslandedRow(rv) ==
    /\ pc = "loop"
    /\ Len(ws) < MaxRows
    /\ format_string(rv.grid) = AISLADO
    /\ ws' = Append(ws, rv)
    /\ UNCHANGED << pc, current_plant_name, current_owner, current_fuel_types,
                    current_capacity_sum, current_generation_sum, count,
                    plants_dictionary, fuel_sharers >>
    /\ UNCHANGED varsEnrich
    /\ UNCHANGED << varsBRA, varsSUM >>

\* lines 102-131: a row with fuel and name closes the open plant and
\* becomes the current one
NameRow(rv) ==
    /\ pc = "loop"
    /\ Len(ws) < MaxRows
    /\ format_string(rv.grid) # AISLADO
    /\ Truthy(format_string(rv.fuel))
    /\ Truthy(format_string(rv.name))
    /\ ws' = Append(ws, rv)
    /\ IF IsOpen(current_plant_name)
       THEN /\ plants_dictionary' = AddPlant(plants_dictionary, count)
            /\ count' = NextCount(count)
            /\ fuel_sharers' =
                 SharersAfterRebind(fuel_sharers \cup { make_id(SAVE_CODE, count) })
       ELSE /\ UNCHANGED << count, plants_dictionary >>
            /\ fuel_sharers' = SharersAfterRebind(fuel_sharers)
    /\ ResetToRow(rv)
    /\ UNCHANGED pc
    /\ UNCHANGED varsEnrich
    /\ UNCHANGED << varsBRA, varsSUM >>

\* lines 133-137: a row with fuel and no name is an additional unit of the
\* current plant; float() is not guarded
UnitRow(rv) ==
    /\ pc = "loop"
    /\ Len(ws) < MaxRows
    /\ format_string(rv.grid) # AISLADO
    /\ Truthy(format_string(rv.fuel))
    /\ ~ Truthy(format_string(rv.name))
    /\ ws' = Append(ws, rv)
    /\ IF CanFloat(rv.capacity) /\ CanFloat(rv.generation)
       THEN /\ current_capacity_sum' =
                 AddUnit(current_capacity_sum, rv.capacity, CAPACITY_CONVERSION_TO_MW)
            /\ current_generation_sum' =
                 AddUnit(current_generation_sum, rv.generation, GENERATION_CONVERSION_TO_GWH)
            /\ current_fuel_types' = UnionFuel(current_fuel_types, rv.fuel)
            /\ plants_dictionary' =
                 UpdateShared(plants_dictionary, fuel_sharers,
                              UnionFuel(current_fuel_types, rv.fuel))
            /\ UNCHANGED pc
       ELSE \* ValueError at line 135 or 136
            /\ pc' = "ValueError"
            /\ current_capacity_sum' =
                 IF CanFloat(rv.capacity)
                 THEN AddUnit(current_capacity_sum, rv.capacity, CAPACITY_CONVERSION_TO_MW)
                 ELSE current_capacity_sum
            /\ UNCHANGED << current_generation_sum, current_fuel_types,
                            plants_dictionary >>
    /\ UNCHANGED << current_plant_name, current_owner, count, fuel_sharers >>
    /\ UNCHANGED varsEnrich
    /\ UNCHANGED << varsBRA, varsSUM >>

\* lines 139-161: a row without fuel closes the open plant and resets the
\* current values to null
NoFuelRow(rv) ==
    /\ pc = "loop"
    /\ Len(ws) < MaxRows
    /\ format_string(rv.grid) # AISLADO
    /\ ~ Truthy(format_string(rv.fuel))
    /\ ws' = Append(ws, rv)
    /\ IF IsOpen(current_plant_name)
       THEN /\ plants_dictionary' = AddPlant(plants_dictionary, count)
            /\ count' = NextCount(count)
            /\ fuel_sharers' =
                 SharersAfterRebind(fuel_sharers \cup { make_id(SAVE_CODE, count) })
            /\ ResetToNull
       ELSE UNCHANGED << current_plant_name, current_owner, current_fuel_types,
                         current_capacity_sum, current_generation_sum, count,
                         plants_dictionary, fuel_sharers >>
    /\ UNCHANGED pc
    /\ UNCHANGED varsEnrich
    /\ UNCHANGED << varsBRA, varsSUM >>

\* line 92: range(START_ROW+1, ws.nrows) is exhausted; the script goes on
\* to line 163
EndOfRows ==
    /\ pc = "loop"
    /\ pc' = "enrich"
    /\ UNCHANGED << ws, current_plant_name, current_owner, current_fuel_types,
                    current_capacity_sum, current_generation_sum, count,
                    plants_dictionary, fuel_sharers >>
    /\ UNCHANGED varsEnrich
    /\ UNCHANGED << varsBRA, varsSUM >>

(***************************************************************************)
(* build_database_ARG.py: locations and commissioning years.               *)
(*                                                                         *)
(* The two lookup files are read at lines 62-75, before the sheet (see     *)
(* InitARG); the loop over the plants at lines 167-180 uses them.          *)
(***************************************************************************)
\* line 169: plant.name in locations_dictionary.keys()
LocationFound(plant) == plant.name \in DOMAIN locations_dictionary

\* the year looked up only for a plant whose location was found
YearFoundWithLocation(plant) ==
    /\ plant.name \in DOMAIN commissioning_years_dictionary
    /\ plant.name \in DOMAIN locations_dictionary

\* line 176: plant.name in commissioning_years_dictionary.keys()
YearFound(plant) == plant.name \in DOMAIN commissioning_years_dictionary

\* the coordinates found appended to the location the plant has
EnrichedExtending(plant) ==
    [ plant EXCEPT
        !.location = IF LocationFound(plant)
                     THEN @ \o locations_dictionary[plant.name]
                     ELSE @,
        !.commissioning_year = IF YearFound(plant)
                               THEN commissioning_years_dictionary[plant.name]
                               ELSE @ ]

\* the plant replaced by a new PowerPlant that is given its identifier, name,
\* fuel and capacity only
EnrichedRebuilt(plant) ==
    [ PowerPlant(plant.idnr, plant.name, NO_DATA_UNICODE, plant.fuel, plant.capacity, 0)
        EXCEPT
        !.location = IF LocationFound(plant)
                     THEN LocationObject(locations_dictionary[plant.name][1],
                                         locations_dictionary[plant.name][2])
                     ELSE plant.location,
        !.commissioning_year = IF YearFound(plant)
                               THEN commissioning_years_dictionary[plant.name]
                               ELSE plant.commissioning_year ]

\* lines 169-177: the plant after the two lookups
Enriched(plant) ==
    [ plant EXCEPT
        !.location = IF LocationFound(plant)
                     THEN LocationObject(locations_dictionary[plant.name][1],
                                         locations_dictionary[plant.name][2])
                     ELSE @,
        !.commissioning_year = IF YearFound(plant)
                               THEN commissioning_years_dictionary[plant.name]
                               ELSE @ ]

\* lines 164-165: the two lists empty, the loop over plants_dictionary
\* about to start
StartEnrichment ==
    /\ pc = "enrich"
    /\ pc' = "plants"
    /\ UNCHANGED << locations_dictionary, commissioning_years_dictionary >>
    /\ location_not_found' = << >>
    /\ year_not_found' = << >>
    /\ visited' = {}
    /\ UNCHANGED << ws, current_plant_name, current_owner, current_fuel_types,
                    current_capacity_sum, current_generation_sum, count,
                    plants_dictionary, fuel_sharers >>
    /\ UNCHANGED << varsBRA, varsSUM >>

\* lines 167-180: one turn of the loop; iteritems() yields the plants in
\* an order the script does not choose
EnrichPlant(idnr) ==
    /\ pc = "plants"
    /\ idnr \in DOMAIN plants_dictionary
    /\ idnr \notin visited
    /\ LET plant == plants_dictionary[idnr]
       IN  /\ plants_dictionary' = [ plants_dictionary EXCEPT ![idnr] = Enriched(plant) ]
           /\ location_not_found' =
                IF LocationFound(plant) THEN location_not_found
                                        ELSE Append(location_not_found, idnr)
           /\ year_not_found' =
                IF YearFound(plant) THEN year_not_found
                                    ELSE Append(year_not_found, idnr)
    /\ visited' = visited \cup {idnr}
    /\ UNCHANGED << pc, ws, current_plant_name, current_owner, current_fuel_types,
                    current_capacity_sum, current_generation_sum, count, fuel_sharers,
                    locations_dictionary, commissioning_years_dictionary >>
    /\ UNCHANGED << varsBRA, varsSUM >>

\* line 167: iteritems() is exhausted; the script goes on to report and
\* save the plants (lines 196-203)
EndOfPlants ==
    /\ pc = "plants"
    /\ visited = DOMAIN plants_dictionary
    /\ pc' = "done"
    /\ UNCHANGED << ws, current_plant_name, current_owner, current_fuel_types,
                    current_capacity_sum, current_generation_sum, count,
                    plants_dictionary, fuel_sharers >>
    /\ UNCHANGED varsEnrich
    /\ UNCHANGED << varsBRA, varsSUM >>

\* lines 83-161: the grouping of the rows of a sheet that holds rows of the
\* given set
Grouping(rows) ==
    \/ NoFirstRow
    \/ \E rv \in rows : FirstRow(rv)
    \/ \E rv \in rows : IslandedRow(rv)
    \/ \E rv \in rows : NameRow(rv)
    \/ \E rv \in rows : UnitRow(rv)
    \/ \E rv \in rows : NoFuelRow(rv)
    \/ EndOfRows

\* the row grouping over all sheets of rows of SourceRows, up to the start
\* of the enrichment
NextARG == Grouping(SourceRows)

SpecARG == InitARG /\ [][NextARG]_vars

\* the rows of the sheets on which the whole script is followed, the
\* enrichment included: three plants, an additional unit, an islanded unit,
\* a blank row
EnrichRows ==
    { Row("Owner P", "Plant A",  "GAS",   "SADI",    Number(1000), Number(500)),
      Row("Owner Q", "Plant B ", "HYDRO", " SADI",   Number(2000), Number(1000)),
      Row("Owner R", "Plant C",  "XYZ",   "SADI",    Number(700),  Number(300)),
      Row("",        "",         "GAS",   "SADI",    Number(500),  Number(200)),
      Row("",        "",         "HYDRO", "AISLADO", Number(500),  Number(200)),
      Row("",        "",         "",      "",        NotANumber,   NotANumber) }

\* the whole script: grouping, then enrichment
NextEnrich ==
    \/ Grouping(EnrichRows)
    \/ StartEnrichment
    \/ \E idnr \in DOMAIN plants_dictionary : EnrichPlant(idnr)
    \/ EndOfPlants

SpecEnrich == InitARG /\ [][NextEnrich]_vars

(***************************************************************************)
(* Properties of the row grouping, stated over the rows read (ws).         *)
(***************************************************************************)
\* the classes of a row
Islanded(rv) == format_string(rv.grid) = AISLADO
FuelBearing(rv) == format_string(rv.fuel) # ""
NameBearing(rv) == format_string(rv.name) # ""

\* a row from which nothing can be read: no fuel, no name, no numbers
BlankRow(rv) ==
    /\ ~ FuelBearing(rv)
    /\ ~ NameBearing(rv)
    /\ ~ CanFloat(rv.capacity)
    /\ ~ CanFloat(rv.generation)

\* the step reads the row rv
Reads(rv) == ws' = Append(ws, rv)

\* the accumulator is open
Open == current_plant_name # ""

\* the accumulator, and the accumulator in state Empty
Accumulator ==
    << current_plant_name, current_owner, current_fuel_types,
       current_capacity_sum, current_generation_sum >>
Empty == << "", "", {}, 0, 0 >>

\* the rows read are the whole table and the grouping has ended normally
GroupingEnded == pc = "enrich"

\* what a cell adds to a sum: the converted number, nothing when it is none
Contribution(cell, conversion) ==
    IF cell.numeric THEN (cell.value * Scale * conversion) \div Scale ELSE 0

RECURSIVE SumOver(_, _)
SumOver(S, f) ==
    IF S = {} THEN 0
    ELSE LET x == CHOOSE y \in S : TRUE IN f[x] + SumOver(S \ {x}, f)

\* row i opens a group: the first data row when it bears a name, a later
\* row when it is connected, bears fuel and bears a name
Opens(i) ==
    IF i = 1 THEN NameBearing(ws[1])
    ELSE ~ Islanded(ws[i]) /\ FuelBearing(ws[i]) /\ NameBearing(ws[i])

\* row j ends the group open before it
Closes(j) ==
    j > 1 /\ ~ Islanded(ws[j]) /\ (~ FuelBearing(ws[j]) \/ NameBearing(ws[j]))

Openers == { i \in 1..Len(ws) : Opens(i) }

\* the rows of the group that row i opened: row i and the connected rows
\* after it up to the row that ends the group (all of them bear fuel and no name)
Members(i) ==
    {i} \cup { j \in (i+1)..Len(ws) :
                 /\ ~ Islanded(ws[j])
                 /\ \A m \in (i+1)..j : ~ Closes(m) }

\* the group that row i opened has been ended by a later row
Ended(i) == \E j \in (i+1)..Len(ws) : Closes(j)

\* the k-th opener of the table
Rank(i) == Cardinality({ o \in Openers : o <= i })

\* the identifiers ARG1..ARGn
Ids(n) == { make_id(SAVE_CODE, k) : k \in 1..n }

\* C1: when the run ends, the number of records in plants_dictionary equals
\* the number of rows that bear a name, bear fuel and are not on the AISLADO grid.
C1_RecordCountIsPlantRowCount ==
    GroupingEnded =>
        Cardinality(DOMAIN plants_dictionary) =
            Cardinality({ i \in 1..Len(ws) :
                            NameBearing(ws[i]) /\ FuelBearing(ws[i]) /\ ~ Islanded(ws[i]) })

\* C2: an accumulator that is still open when the last row has been
\* processed is finalized and added to plants_dictionary exactly once before
\* enrichment starts.
C2_OpenAccumulatorEmittedAtEnd ==
    [][ (pc = "loop" /\ pc' = "enrich" /\ Open) =>
          /\ DOMAIN plants_dictionary' =
                (DOMAIN plants_dictionary) \cup { make_id(SAVE_CODE, count) }
          /\ make_id(SAVE_CODE, count) \notin DOMAIN plants_dictionary
          /\ plants_dictionary'[make_id(SAVE_CODE, count)].name = current_plant_name
      ]_vars

\* C3: every emitted record's capacity is the sum of the converted raw
\* capacities of the row that opened its group and of the additional-unit rows
\* of that group, its generation the same sum over the generation cells, and
\* its fuel set the union of the standardized fuels of exactly those rows.
C3_RecordIsSumOfItsRows ==
    \A id \in DOMAIN plants_dictionary :
        \E o \in Openers :
            /\ id = make_id(SAVE_CODE, Rank(o))
            /\ Ended(o)
            /\ plants_dictionary[id].capacity =
                 SumOver(Members(o),
                         [ j \in Members(o) |->
                             Contribution(ws[j].capacity, CAPACITY_CONVERSION_TO_MW) ])
            /\ plants_dictionary[id].generation =
                 SumOver(Members(o),
                         [ j \in Members(o) |->
                             Contribution(ws[j].generation, GENERATION_CONVERSION_TO_GWH) ])
            /\ plants_dictionary[id].fuel =
                 UNION { standardize_fuel(format_string(ws[j].fuel)) : j \in Members(o) }

\* C3 witness: a record of a group of three rows with two fuels has been emitted.
C3_Witness ==
    \E id \in DOMAIN plants_dictionary :
        \E o \in Openers :
            /\ id = make_id(SAVE_CODE, Rank(o))
            /\ Cardinality(Members(o)) = 3
            /\ plants_dictionary[id].capacity = 2000
            /\ plants_dictionary[id].generation = 900
            /\ plants_dictionary[id].fuel = {"Gas", "Hydro"}

\* C4: a row on the AISLADO grid, at any position including the first data
\* row, leaves the accumulator, the identifier counter and plants_dictionary
\* unchanged.
C4_IslandedRowChangesNothing ==
    [][ \A rv \in SourceRows :
          (Reads(rv) /\ Islanded(rv)) =>
              UNCHANGED << Accumulator, count, plants_dictionary >>
      ]_vars

\* C5: when the capacity or generation cell of a row that is folded in (the
\* first data row, a name-bearing row, an additional-unit row) cannot be parsed,
\* that field contributes zero, the other field is still folded in, and the
\* run is not aborted.
C5_ParseFailureContributesZero ==
    [][ \A rv \in SourceRows :
          ( /\ Reads(rv)
            /\ pc = "first" \/ (~ Islanded(rv) /\ FuelBearing(rv))
            /\ ~ CanFloat(rv.capacity) \/ ~ CanFloat(rv.generation) ) =>
              LET opening == pc = "first" \/ NameBearing(rv)
                  base_capacity == IF opening THEN 0 ELSE current_capacity_sum
                  base_generation == IF opening THEN 0 ELSE current_generation_sum
              IN  /\ pc' = "loop"
                  /\ current_capacity_sum' =
                       base_capacity + Contribution(rv.capacity, CAPACITY_CONVERSION_TO_MW)
                  /\ current_generation_sum' =
                       base_generation + Contribution(rv.generation, GENERATION_CONVERSION_TO_GWH)
      ]_vars

\* C6: a table without any plant-definition row (every row, the first
\* included, is blank) raises no error and yields zero records.
C6_BlankTableYieldsNoRecords ==
    (Len(ws) >= 1 /\ \A i \in 1..Len(ws) : BlankRow(ws[i])) =>
        /\ pc \in {"loop", "enrich"}
        /\ plants_dictionary = << >>

\* C7: the counter starts at 1 and is incremented exactly when a record is
\* added to plants_dictionary; the identifiers assigned are ARG1..ARGn without
\* gaps, each record is stored under its own identifier, a new identifier is
\* greater than all earlier ones, and count - 1 is the number of records.
C7_IdentifiersAreSequential ==
    /\ [] /\ count >= 1
          /\ DOMAIN plants_dictionary = Ids(count - 1)
          /\ Cardinality(DOMAIN plants_dictionary) = count - 1
          /\ \A id \in DOMAIN plants_dictionary : plants_dictionary[id].idnr = id
    /\ [][ /\ count' \in {count, count + 1}
           /\ (count' = count + 1) <=>
                 (DOMAIN plants_dictionary' # DOMAIN plants_dictionary)
           /\ (count' = count + 1) =>
                 /\ DOMAIN plants_dictionary' =
                       (DOMAIN plants_dictionary) \cup { make_id(SAVE_CODE, count) }
                 /\ \A id \in DOMAIN plants_dictionary : id[2] < count
                 /\ \A id \in DOMAIN plants_dictionary :
                       plants_dictionary'[id] = plants_dictionary[id]
           /\ \A rv \in SourceRows :
                 (Reads(rv) /\ pc = "loop"
                    /\ (Islanded(rv) \/ (FuelBearing(rv) /\ ~ NameBearing(rv))
                        \/ (~ FuelBearing(rv) /\ ~ Open))) =>
                     count' = count
      ]_vars

\* C7 witness: two records have been emitted from a table that also holds an
\* islanded row.
C7_Witness ==
    /\ count = 3
    /\ DOMAIN plants_dictionary = Ids(2)
    /\ \E i \in 2..Len(ws) : Islanded(ws[i])

\* C9: a connected row without fuel finalizes the open accumulator (one
\* record, one identifier) and leaves the state Empty; when no accumulator is
\* open it changes nothing.
C9_NoFuelRowFinalizesAndResets ==
    [][ \A rv \in SourceRows :
          (pc = "loop" /\ Reads(rv) /\ ~ Islanded(rv) /\ ~ FuelBearing(rv)) =>
              IF Open
              THEN /\ DOMAIN plants_dictionary' =
                         (DOMAIN plants_dictionary) \cup { make_id(SAVE_CODE, count) }
                   /\ make_id(SAVE_CODE, count) \notin DOMAIN plants_dictionary
                   /\ \A id \in DOMAIN plants_dictionary :
                         plants_dictionary'[id] = plants_dictionary[id]
                   /\ LET rec == plants_dictionary'[make_id(SAVE_CODE, count)]
                      IN  << rec.name, rec.owner, rec.fuel, rec.capacity, rec.generation >>
                            = Accumulator
                   /\ count' = count + 1
                   /\ Accumulator' = Empty
              ELSE UNCHANGED << Accumulator, count, plants_dictionary >>
      ]_vars

\* C9 witness: the row read last has no fuel and ended the group of the plant
\* row before it: its record is there and the accumulator is Empty.
C9_Witness ==
    /\ pc = "loop"
    /\ Len(ws) = 3
    /\ Opens(2) /\ CanFloat(ws[2].capacity)
    /\ ~ Islanded(ws[3]) /\ ~ FuelBearing(ws[3])
    /\ \E id \in DOMAIN plants_dictionary :
          /\ plants_dictionary[id].name = format_string(ws[2].name)
          /\ plants_dictionary[id].capacity > 0
    /\ Accumulator = Empty

\* C10: a connected row with fuel and name first finalizes the open
\* accumulator with the values accumulated before this row, and then opens a
\* new accumulator holding exactly this row's values.
C10_NameRowFinalizesThenOpens ==
    [][ \A rv \in SourceRows :
          (pc = "loop" /\ Reads(rv) /\ ~ Islanded(rv) /\ FuelBearing(rv) /\ NameBearing(rv)) =>
              /\ IF Open
                 THEN /\ DOMAIN plants_dictionary' =
                            (DOMAIN plants_dictionary) \cup { make_id(SAVE_CODE, count) }
                      /\ make_id(SAVE_CODE, count) \notin DOMAIN plants_dictionary
                      /\ \A id \in DOMAIN plants_dictionary :
                            plants_dictionary'[id] = plants_dictionary[id]
                      /\ LET rec == plants_dictionary'[make_id(SAVE_CODE, count)]
                         IN  << rec.name, rec.owner, rec.fuel, rec.capacity, rec.generation >>
                               = Accumulator
                      /\ count' = count + 1
                 ELSE UNCHANGED << count, plants_dictionary >>
              /\ Accumulator' =
                   << format_string(rv.name), format_string(rv.owner),
                      standardize_fuel(format_string(rv.fuel)),
                      Contribution(rv.capacity, CAPACITY_CONVERSION_TO_MW),
                      Contribution(rv.generation, GENERATION_CONVERSION_TO_GWH) >>
      ]_vars

\* C10 witness: a plant row followed a group of two rows of another plant;
\* the record holds the group's values and the accumulator the row's.
C10_Witness ==
    /\ pc = "loop"
    /\ Len(ws) = 3
    /\ NameBearing(ws[1]) /\ ~ NameBearing(ws[2]) /\ FuelBearing(ws[2]) /\ ~ Islanded(ws[2])
    /\ Opens(3)
    /\ format_string(ws[3].name) # format_string(ws[1].name)
    /\ count = 2
    /\ plants_dictionary[make_id(SAVE_CODE, 1)].name = format_string(ws[1].name)
    /\ plants_dictionary[make_id(SAVE_CODE, 1)].capacity = 1500
    /\ plants_dictionary[make_id(SAVE_CODE, 1)].owner # current_owner
    /\ current_plant_name = format_string(ws[3].name)
    /\ current_capacity_sum = 2000

\* the enrichment loop has ended
EnrichmentEnded == pc = "done"

\* how often a plant is in a not-found list
Occurrences(list, id) == Cardinality({ i \in 1..Len(list) : list[i] = id })

\* the no-data values a plant is built with
NoLocation == << NO_DATA_NUMERIC, NO_DATA_NUMERIC >>
NoYear == NO_DATA_NUMERIC

\* C11: every record is looked up in the location table and in the
\* commissioning-year table independently: on a hit the field holds the
\* table's value, on a miss it keeps its absent value and the record is
\* appended (once) to that table's not-found list, whatever the other lookup
\* gave; no record is removed; a record is in a not-found list exactly when
\* its name is not a key of that table.
C11_LookupsAreIndependent ==
    EnrichmentEnded =>
        /\ DOMAIN plants_dictionary = Ids(count - 1)
        /\ \A i \in 1..Len(location_not_found) :
              location_not_found[i] \in DOMAIN plants_dictionary
        /\ \A i \in 1..Len(year_not_found) :
              year_not_found[i] \in DOMAIN plants_dictionary
        /\ \A id \in DOMAIN plants_dictionary :
              LET plant == plants_dictionary[id]
              IN  /\ IF plant.name \in DOMAIN locations_dictionary
                     THEN /\ plant.location = locations_dictionary[plant.name]
                          /\ Occurrences(location_not_found, id) = 0
                     ELSE /\ plant.location = NoLocation
                          /\ Occurrences(location_not_found, id) = 1
                  /\ IF plant.name \in DOMAIN commissioning_years_dictionary
                     THEN /\ plant.commissioning_year =
                               commissioning_years_dictionary[plant.name]
                          /\ Occurrences(year_not_found, id) = 0
                     ELSE /\ plant.commissioning_year = NoYear
                          /\ Occurrences(year_not_found, id) = 1

\* C11 witness: of two plants one hit the location table and missed the year
\* table, the other missed the location table and hit the year table.
C11_Witness ==
    /\ EnrichmentEnded
    /\ \E a, b \in DOMAIN plants_dictionary :
          /\ plants_dictionary[a].location # NoLocation
          /\ plants_dictionary[a].commissioning_year = NoYear
          /\ Occurrences(location_not_found, a) = 0
          /\ Occurrences(year_not_found, a) = 1
          /\ plants_dictionary[b].location = NoLocation
          /\ plants_dictionary[b].commissioning_year # NoYear
          /\ Occurrences(location_not_found, b) = 1
          /\ Occurrences(year_not_found, b) = 0

\* C15: the lookups of the enrichment loop, applied once more to an
\* already enriched plant with the same two tables, change none of its fields.
C15_EnrichmentIsIdempotent ==
    \A id \in visited :
        Enriched(plants_dictionary[id]) = plants_dictionary[id]

\* C15 witness: the loop has ended over two plants, one of which got its
\* location and its year from the tables, the other its location only.
C15_Witness ==
    /\ EnrichmentEnded
    /\ \E a, b \in visited :
          /\ a # b
          /\ plants_dictionary[a].location # NoLocation
          /\ plants_dictionary[a].commissioning_year # NoYear
          /\ plants_dictionary[b].location # NoLocation
          /\ plants_dictionary[b].commissioning_year = NoYear

\* C16: a step of the enrichment changes only the location and the
\* commissioning year of a plant: the key set of plants_dictionary and every
\* plant's identifier, name, owner, fuel set, capacity and generation stay.
C16_EnrichmentChangesTwoFieldsOnly ==
    [][ (pc = "enrich" \/ pc = "plants") =>
          /\ DOMAIN plants_dictionary' = DOMAIN plants_dictionary
          /\ \A id \in DOMAIN plants_dictionary :
                /\ plants_dictionary'[id].idnr = plants_dictionary[id].idnr
                /\ plants_dictionary'[id].name = plants_dictionary[id].name
                /\ plants_dictionary'[id].owner = plants_dictionary[id].owner
                /\ plants_dictionary'[id].fuel = plants_dictionary[id].fuel
                /\ plants_dictionary'[id].capacity = plants_dictionary[id].capacity
                /\ plants_dictionary'[id].generation = plants_dictionary[id].generation
                /\ DOMAIN plants_dictionary'[id] = DOMAIN plants_dictionary[id]
      ]_vars

\* C16 witness: the loop has enriched a plant with owner, fuel, capacity
\* and generation, and has another plant still before it.
C16_Witness ==
    /\ pc = "plants"
    /\ visited # DOMAIN plants_dictionary
    /\ \E id \in visited :
          /\ plants_dictionary[id].location # NoLocation
          /\ plants_dictionary[id].commissioning_year # NoYear
          /\ plants_dictionary[id].owner # ""
          /\ plants_dictionary[id].fuel # {}
          /\ plants_dictionary[id].capacity > 0
          /\ plants_dictionary[id].generation > 0

\* a connected row with fuel and without name: an additional unit
AdditionalUnit(rv) == ~ Islanded(rv) /\ FuelBearing(rv) /\ ~ NameBearing(rv)

\* both number cells of the row can be read
Parses(rv) == rv.capacity.numeric /\ rv.generation.numeric

\* C17 as stated: while a group stays open, the capacity sum and the
\* generation sum never decrease from one folded row to the next, for every
\* row whose cells parse as numbers.
C17_SumsNeverDecrease ==
    [][ \A rv \in SourceRows :
          (pc = "loop" /\ Open /\ Reads(rv) /\ AdditionalUnit(rv) /\ Parses(rv)) =>
              /\ current_capacity_sum' >= current_capacity_sum
              /\ current_generation_sum' >= current_generation_sum
      ]_vars

\* C17 amended: while a group stays open, a folded row whose cells parse
\* changes each sum by exactly its converted value, so a sum does not decrease
\* when the row's value is not negative and decreases when it is negative.
C17_SumsFollowTheSignOfTheRow ==
    [][ \A rv \in SourceRows :
          (pc = "loop" /\ Open /\ Reads(rv) /\ AdditionalUnit(rv) /\ Parses(rv)) =>
              /\ current_capacity_sum' - current_capacity_sum =
                   Contribution(rv.capacity, CAPACITY_CONVERSION_TO_MW)
              /\ current_generation_sum' - current_generation_sum =
                   Contribution(rv.generation, GENERATION_CONVERSION_TO_GWH)
              /\ (current_capacity_sum' >= current_capacity_sum) <=> (rv.capacity.value >= 0)
              /\ (current_generation_sum' >= current_generation_sum)
                    <=> (rv.generation.value >= 0)
      ]_vars

\* C17 witness: two additional units have been folded into an open group, the
\* first with positive values, the second with negative ones.
C17_Witness ==
    /\ pc = "loop"
    /\ Len(ws) = 3
    /\ Opens(1) /\ Open
    /\ AdditionalUnit(ws[2]) /\ Parses(ws[2])
    /\ ws[2].capacity.value > 0 /\ ws[2].generation.value > 0
    /\ AdditionalUnit(ws[3]) /\ Parses(ws[3])
    /\ ws[3].capacity.value < 0 /\ ws[3].generation.value < 0
    /\ current_capacity_sum = 1200
    /\ current_generation_sum = 600

\* C18: an additional-unit row (connected, fuel, no name) leaves the
\* accumulator's name and owner, the identifier counter and plants_dictionary
\* unchanged; when its cells parse it adds its converted capacity and
\* generation to the sums and unions its fuel into the fuel set.
C18_UnitRowOnlyAddsToTheGroup ==
    [][ \A rv \in SourceRows :
          (pc = "loop" /\ Reads(rv) /\ AdditionalUnit(rv)) =>
              /\ UNCHANGED << current_plant_name, current_owner, count, plants_dictionary >>
              /\ Parses(rv) =>
                    /\ pc' = "loop"
                    /\ current_capacity_sum' = current_capacity_sum
                          + Contribution(rv.capacity, CAPACITY_CONVERSION_TO_MW)
                    /\ current_generation_sum' = current_generation_sum
                          + Contribution(rv.generation, GENERATION_CONVERSION_TO_GWH)
                    /\ current_fuel_types' = current_fuel_types
                          \cup standardize_fuel(format_string(rv.fuel))
      ]_vars

\* C18 witness: after one record was emitted, an additional unit with another
\* fuel has been folded into the open group of a second plant.
C18_Witness ==
    /\ pc = "loop"
    /\ Len(ws) = 3
    /\ Opens(1) /\ Opens(2)
    /\ AdditionalUnit(ws[3]) /\ Parses(ws[3])
    /\ count = 2
    /\ DOMAIN plants_dictionary = Ids(1)
    /\ current_plant_name = format_string(ws[2].name)
    /\ current_owner = format_string(ws[2].owner)
    /\ current_fuel_types = {"Gas", "Hydro"}
    /\ standardize_fuel(format_string(ws[2].fuel))
          # standardize_fuel(format_string(ws[3].fuel))
    /\ current_capacity_sum = 1500

\* C19: once a record is in plants_dictionary no later row changes its name,
\* owner, fuel set, capacity or generation, and no record is removed; the
\* in-place update of the fuel set by an additional-unit row never reaches the
\* fuel set of an emitted record.
C19_EmittedRecordsAreNotChanged ==
    [][ \A id \in DOMAIN plants_dictionary :
          /\ id \in DOMAIN plants_dictionary'
          /\ plants_dictionary'[id].name = plants_dictionary[id].name
          /\ plants_dictionary'[id].owner = plants_dictionary[id].owner
          /\ plants_dictionary'[id].fuel = plants_dictionary[id].fuel
          /\ plants_dictionary'[id].capacity = plants_dictionary[id].capacity
          /\ plants_dictionary'[id].generation = plants_dictionary[id].generation
      ]_vars

\* C19 witness: a plant row emitted the record of the plant before it, and an
\* additional unit with another fuel was then folded into the new group; the
\* record still holds the fuel of its own rows only.
C19_Witness ==
    /\ pc = "loop"
    /\ Len(ws) = 3
    /\ Opens(1) /\ Opens(2)
    /\ AdditionalUnit(ws[3]) /\ Parses(ws[3])
    /\ standardize_fuel(format_string(ws[3].fuel)) = {"Hydro"}
    /\ plants_dictionary[make_id(SAVE_CODE, 1)].fuel = {"Gas"}
    /\ plants_dictionary[make_id(SAVE_CODE, 1)].name = format_string(ws[1].name)
    /\ "Hydro" \in current_fuel_types
    /\ fuel_sharers = {}

\* C20: a row arriving while no group is open never causes a record to be
\* emitted; an additional-unit row leaves the accumulator without name, and the
\* next plant row overwrites the accumulator with its own values, so that what
\* the unit rows added reaches no record; no record without name exists.
C20_OrphanUnitReachesNoRecord ==
    /\ [] (\A id \in DOMAIN plants_dictionary : plants_dictionary[id].name # "")
    /\ [][ \A rv \in SourceRows :
             (pc = "loop" /\ ~ Open /\ Reads(rv)) =>
                 /\ UNCHANGED << count, plants_dictionary >>
                 /\ AdditionalUnit(rv) => current_plant_name' = ""
                 /\ (~ Islanded(rv) /\ FuelBearing(rv) /\ NameBearing(rv)) =>
                       Accumulator' =
                         << format_string(rv.name), format_string(rv.owner),
                            standardize_fuel(format_string(rv.fuel)),
                            Contribution(rv.capacity, CAPACITY_CONVERSION_TO_MW),
                            Contribution(rv.generation, GENERATION_CONVERSION_TO_GWH) >>
         ]_vars

\* C20 witness: the first data row had no name, an additional unit followed
\* it, then a plant row with another fuel and a row without fuel: the one
\* record holds the plant row's values only.
C20_Witness ==
    /\ pc = "loop"
    /\ Len(ws) = 4
    /\ ~ NameBearing(ws[1]) /\ Parses(ws[1])
    /\ AdditionalUnit(ws[2]) /\ Parses(ws[2]) /\ ws[2].capacity.value > 0
    /\ Opens(3) /\ Parses(ws[3])
    /\ ~ Islanded(ws[4]) /\ ~ FuelBearing(ws[4])
    /\ standardize_fuel(format_string(ws[2].fuel))
          # standardize_fuel(format_string(ws[3].fuel))
    /\ DOMAIN plants_dictionary = Ids(1)
    /\ plants_dictionary[make_id(SAVE_CODE, 1)].capacity =
          Contribution(ws[3].capacity, CAPACITY_CONVERSION_TO_MW)
    /\ plants_dictionary[make_id(SAVE_CODE, 1)].generation =
          Contribution(ws[3].generation, GENERATION_CONVERSION_TO_GWH)
    /\ plants_dictionary[make_id(SAVE_CODE, 1)].fuel =
          standardize_fuel(format_string(ws[3].fuel))

(***************************************************************************)
(* build_database_BRA.py.                                                  *)
(*                                                                         *)
(* A CEG code is modelled as the sequence of its characters, so that the   *)
(* slices and int() of the script are computed as Python computes them.    *)
(***************************************************************************)
SAVE_CODE_BRA == "BRA"
\* 0.001: capacity values are given in kW in the raw data
CAPACITY_CONVERSION_TO_MW_BRA == 1
\* u"nao identificado" (written without the tilde here)
UNIDENTIFIED == "nao identificado"

\* the specialized fuel type interpreter
fuel_types ==
    [ p \in { <<"C","G","H">>, <<"C","G","U">>, <<"E","O","L">>, <<"P","C","H">>,
              <<"U","F","V">>, <<"U","H","E">>, <<"U","T","E">>, <<"U","T","N">> } |->
        CASE p = <<"C","G","H">> -> "Hydro"
          [] p = <<"C","G","U">> -> "Wave and Tidal"
          [] p = <<"E","O","L">> -> "Wind"
          [] p = <<"P","C","H">> -> "Hydro"
          [] p = <<"U","F","V">> -> "Solar"
          [] p = <<"U","H","E">> -> "Hydro"
          [] p = <<"U","T","E">> -> "Thermal"
          [] p = <<"U","T","N">> -> "Nuclear" ]

\* fuel_types[fuel_string] raises KeyError for an unknown key
CanStandardizeFuelBRA(fuel_string) == fuel_string \in DOMAIN fuel_types
standardize_fuel_BRA(fuel_string) == fuel_types[fuel_string]

\* Python's s[a:b]: a negative index counts from the end, both are clamped
SliceIndex(k, n) ==
    IF k < 0 THEN (IF n + k < 0 THEN 0 ELSE n + k)
             ELSE (IF k > n THEN n ELSE k)
Slice(s, a, b) == SubSeq(s, SliceIndex(a, Len(s)) + 1, SliceIndex(b, Len(s)))

\* Python's int(text) of a text of decimal digits
DigitValue ==
    [ c \in {"0","1","2","3","4","5","6","7","8","9"} |->
        CASE c = "0" -> 0 [] c = "1" -> 1 [] c = "2" -> 2 [] c = "3" -> 3
          [] c = "4" -> 4 [] c = "5" -> 5 [] c = "6" -> 6 [] c = "7" -> 7
          [] c = "8" -> 8 [] c = "9" -> 9 ]
CanInt(s) == Len(s) > 0 /\ \A i \in 1..Len(s) : s[i] \in DOMAIN DigitValue
RECURSIVE Int_(_)
Int_(s) ==
    IF Len(s) = 0 THEN 0
    ELSE 10 * Int_(SubSeq(s, 1, Len(s) - 1)) + DigitValue[s[Len(s)]]

\* u"nao identificado" in owner_description
HasUnidentifiedOwner(owner_description) ==
    owner_description \in { UNIDENTIFIED, "100% para nao identificado" }

\* pw.PowerPlant(...) as the BRA script calls it: no owner is passed, it
\* keeps its no-data default
PowerPlantBRA(idnr, name, location, fuel, capacity) ==
    [ idnr |-> idnr, name |-> name, owner |-> NO_DATA_UNICODE, fuel |-> {fuel},
      capacity |-> capacity, location |-> location ]

\* a dictionary that keeps the record it already holds under the key
StorePlantKeepFirst(dict, idnr, new_plant) ==
    [ k \in (DOMAIN dict) \cup {idnr} |->
        IF k \in DOMAIN dict THEN dict[k] ELSE new_plant ]

\* line 153: plants_dictionary[idnr] = new_plant; a record already held
\* under the key is replaced
StorePlant(dict, idnr, new_plant) ==
    [ k \in (DOMAIN dict) \cup {idnr} |->
        IF k = idnr THEN new_plant ELSE dict[k] ]

\* a row of the plant table: the texts of cells 0, 1, 4 and 6
TableRow(ceg_code, name, capacity, owner_description) ==
    [ ceg_code |-> ceg_code, name |-> name, capacity |-> capacity,
      owner_description |-> owner_description ]

CEG_ROCA    == <<"U","H","E",".","P","H",".","S","P",".","0","0","2","5","3","5","-","4",".","0","1">>
CEG_VENTOS  == <<"E","O","L",".","C","V",".","R","N",".","0","3","0","0","0","1","-","0",".","0","1">>
CEG_TERMO   == <<"U","T","E",".","G","N",".","R","J",".","0","0","2","5","3","5","-","1",".","0","1">>
CEG_UNKNOWN == <<"X","Y","Z",".","G","N",".","R","J",".","0","0","0","0","0","7","-","1",".","0","1">>
CEG_SHORT   == <<"U","H","E",".","7">>

\* rows the plant table may hold
TableRows ==
    { TableRow(CEG_ROCA,    "Roca Grande", Number(1000),  "Owner X"),
      TableRow(CEG_VENTOS,  "Ventos ",     Number(30000), UNIDENTIFIED),
      TableRow(CEG_TERMO,   "Termo",       Number(2000),  "Owner Y"),
      TableRow(CEG_TERMO,   "Termo",       Number(2000),  "100% para nao identificado"),
      TableRow(CEG_VENTOS,  "Ventos ",     NotANumber,    "Owner X"),
      TableRow(CEG_VENTOS,  "Ventos ",     Number(30000), "Owner X"),
      TableRow(CEG_UNKNOWN, "Desconhecida", Number(500),  "Owner Y"),
      TableRow(CEG_SHORT,   "Curta",       Number(500),   "Owner Y") }

\* the coordinate files a run may read
CoordinateFiles ==
    { << >>,
      [ k \in { Slice(CEG_ROCA, 0, 16) } |-> [ latitude |-> 0 - 23, longitude |-> 0 - 46 ] ] }

\* the tables a run may read
Tables == UNION { [ 1..n -> TableRows ] : n \in 0..MaxTableRows }

\* the ARG script is not run
ARGNotRun ==
    /\ pc = "off"
    /\ ws = << >>
    /\ current_plant_name = NO_DATA_UNICODE
    /\ current_owner = NO_DATA_UNICODE
    /\ current_fuel_types = NO_DATA_SET
    /\ current_capacity_sum = 0
    /\ current_generation_sum = 0
    /\ count = 1
    /\ plants_dictionary = << >>
    /\ fuel_sharers = {}
    /\ locations_dictionary = << >>
    /\ commissioning_years_dictionary = << >>
    /\ location_not_found = << >>
    /\ year_not_found = << >>
    /\ visited = {}

\* lines 63-90: the state when the row loop starts; owner is unbound until
\* the loop binds it, the model holds the empty text in it
InitBRA ==
    /\ ARGNotRun
    /\ SUMNotRun
    /\ pc_BRA = "loop"
    /\ plant_coordinates \in CoordinateFiles
    /\ plant_table \in Tables
    /\ row_index = 0
    /\ owner = ""
    /\ found_coordinates_count = 0
    /\ plants_dictionary_BRA = << >>

\* the row the loop is at
row == plant_table[row_index + 1]
ceg_code == row.ceg_code
ceg_code_short == Slice(ceg_code, 0, 16)

\* found_coordinates_count after lines 102-109
FoundCoordinates ==
    IF ceg_code_short \in DOMAIN plant_coordinates
    THEN found_coordinates_count + 1
    ELSE found_coordinates_count

\* lines 94-98 or line 118 raise: int() of the plant id, the fuel lookup, or
\* locale.atof of the capacity
RowError ==
    /\ pc_BRA = "loop"
    /\ row_index < Len(plant_table)
    /\ \/ /\ ~ CanInt(Slice(ceg_code, 0 - 11, 0 - 5))
          /\ pc_BRA' = "ValueError"
          /\ UNCHANGED found_coordinates_count
       \/ /\ CanInt(Slice(ceg_code, 0 - 11, 0 - 5))
          /\ ~ CanStandardizeFuelBRA(Slice(ceg_code, 0, 3))
          /\ pc_BRA' = "KeyError"
          /\ UNCHANGED found_coordinates_count
       \/ /\ CanInt(Slice(ceg_code, 0 - 11, 0 - 5))
          /\ CanStandardizeFuelBRA(Slice(ceg_code, 0, 3))
          /\ ~ CanFloat(row.capacity)
          /\ pc_BRA' = "ValueError"
          /\ found_coordinates_count' = FoundCoordinates
    /\ UNCHANGED << plant_coordinates, plant_table, row_index, owner,
                    plants_dictionary_BRA >>
    /\ UNCHANGED << varsARG, varsSUM >>

\* lines 121-125: the owner text holds the unidentified-owner marker; the
\* break leaves the row loop
UnidentifiedOwnerRow ==
    /\ pc_BRA = "loop"
    /\ row_index < Len(plant_table)
    /\ CanInt(Slice(ceg_code, 0 - 11, 0 - 5))
    /\ CanStandardizeFuelBRA(Slice(ceg_code, 0, 3))
    /\ CanFloat(row.capacity)
    /\ HasUnidentifiedOwner(format_string(row.owner_description))
    /\ found_coordinates_count' = FoundCoordinates
    /\ owner' = NO_DATA_UNICODE
    /\ pc_BRA' = "done"
    /\ UNCHANGED << plant_coordinates, plant_table, row_index, plants_dictionary_BRA >>
    /\ UNCHANGED << varsARG, varsSUM >>

\* lines 92-153: a row that becomes a plant
PlantRow ==
    /\ pc_BRA = "loop"
    /\ row_index < Len(plant_table)
    /\ CanInt(Slice(ceg_code, 0 - 11, 0 - 5))
    /\ CanStandardizeFuelBRA(Slice(ceg_code, 0, 3))
    /\ CanFloat(row.capacity)
    /\ ~ HasUnidentifiedOwner(format_string(row.owner_description))
    /\ LET plant_id == Int_(Slice(ceg_code, 0 - 11, 0 - 5))
           fuel == standardize_fuel_BRA(Slice(ceg_code, 0, 3))
           found == ceg_code_short \in DOMAIN plant_coordinates
           latitude == IF found THEN plant_coordinates[ceg_code_short].latitude
                                ELSE NO_DATA_NUMERIC
           longitude == IF found THEN plant_coordinates[ceg_code_short].longitude
                                 ELSE NO_DATA_NUMERIC
           name == format_string(row.name)
           capacity == Times(CAPACITY_CONVERSION_TO_MW_BRA, Float(row.capacity))
           idnr == make_id(SAVE_CODE_BRA, plant_id)
           new_plant == PowerPlantBRA(idnr, name, LocationObject(latitude, longitude),
                                      fuel, capacity)
       IN  plants_dictionary_BRA' = StorePlant(plants_dictionary_BRA, idnr, new_plant)
    /\ found_coordinates_count' = FoundCoordinates
    /\ owner' = format_string(row.owner_description)
    /\ row_index' = row_index + 1
    /\ UNCHANGED << pc_BRA, plant_coordinates, plant_table >>
    /\ UNCHANGED << varsARG, varsSUM >>

\* line 91: the rows are exhausted; the script goes on to line 155
EndOfTable ==
    /\ pc_BRA = "loop"
    /\ row_index = Len(plant_table)
    /\ pc_BRA' = "done"
    /\ UNCHANGED << plant_coordinates, plant_table, row_index, owner,
                    found_coordinates_count, plants_dictionary_BRA >>
    /\ UNCHANGED << varsARG, varsSUM >>

NextBRA ==
    \/ RowError
    \/ UnidentifiedOwnerRow
    \/ PlantRow
    \/ EndOfTable

SpecBRA == InitBRA /\ [][NextBRA]_vars

\* the plant id of a table row, and whether the script can read the row
PlantIdOf(r) == Int_(Slice(r.ceg_code, 0 - 11, 0 - 5))
Readable(r) ==
    /\ CanInt(Slice(r.ceg_code, 0 - 11, 0 - 5))
    /\ Slice(r.ceg_code, 0, 3) \in DOMAIN fuel_types
    /\ r.capacity.numeric
HasRecord(r) == make_id(SAVE_CODE_BRA, PlantIdOf(r)) \in DOMAIN plants_dictionary_BRA

\* C8: a table row whose owner text holds the unidentified-owner marker
\* produces a record whose owner is the no-data sentinel, and every row after
\* it is still processed and produces its record.
C8_UnidentifiedOwnerIsNoError ==
    (pc_BRA = "done" /\ \A i \in 1..Len(plant_table) : Readable(plant_table[i])) =>
        \A i \in 1..Len(plant_table) :
            HasUnidentifiedOwner(format_string(plant_table[i].owner_description)) =>
                /\ HasRecord(plant_table[i])
                /\ plants_dictionary_BRA[make_id(SAVE_CODE_BRA, PlantIdOf(plant_table[i]))].owner
                     = NO_DATA_UNICODE
                /\ \A j \in (i+1)..Len(plant_table) : HasRecord(plant_table[j])

\* the rows that reached line 153, and the last of them with a plant id
ProcessedRows == 1..row_index
ProcessedIds == { PlantIdOf(plant_table[i]) : i \in ProcessedRows }
LastRowWith(id) ==
    CHOOSE i \in ProcessedRows :
        /\ PlantIdOf(plant_table[i]) = id
        /\ \A j \in ProcessedRows : PlantIdOf(plant_table[j]) = id => j <= i

\* C21: the identifier of a record is the source code followed by the plant
\* id parsed from the CEG code of its row, not a sequence number: the keys
\* of the collection are exactly the identifiers of the plant ids of the
\* processed rows, each record carries its key as identifier and holds the
\* values of the last processed row with its plant id, and the number of
\* records is the number of distinct plant ids among the processed rows.
C21_RecordsAreKeyedByPlantId ==
    pc_BRA # "off" =>
        /\ DOMAIN plants_dictionary_BRA =
              { make_id(SAVE_CODE_BRA, id) : id \in ProcessedIds }
        /\ Cardinality(DOMAIN plants_dictionary_BRA) = Cardinality(ProcessedIds)
        /\ \A id \in ProcessedIds :
              LET record == plants_dictionary_BRA[make_id(SAVE_CODE_BRA, id)]
                  last == plant_table[LastRowWith(id)]
              IN  /\ record.idnr = << SAVE_CODE_BRA, id >>
                  /\ record.name = format_string(last.name)
                  /\ record.fuel = { fuel_types[Slice(last.ceg_code, 0, 3)] }
                  /\ record.capacity =
                        Times(CAPACITY_CONVERSION_TO_MW_BRA, Float(last.capacity))

\* three rows are processed, the first and the third have plant id 2535 and
\* differ in name, fuel and capacity: two records, the third row's values
\* under the shared key
C21_Witness ==
    /\ pc_BRA = "done"
    /\ row_index = 3
    /\ PlantIdOf(plant_table[1]) = PlantIdOf(plant_table[3])
    /\ PlantIdOf(plant_table[2]) # PlantIdOf(plant_table[1])
    /\ plant_table[1].name # plant_table[3].name
    /\ Cardinality(DOMAIN plants_dictionary_BRA) = 2
    /\ plants_dictionary_BRA[make_id(SAVE_CODE_BRA, 2535)].name = "Termo"

(***************************************************************************)
(* utils/powerwatch_summary.py.                                            *)
(*                                                                         *)
(* The table powerplants is a sequence of rows.  A text column holds a     *)
(* text or NULL; capacity_mw holds a number (fixed point, as above) or     *)
(* NULL.  Of the other number columns the script only asks whether they    *)
(* are NULL, so they are held as texts.                                    *)
(***************************************************************************)
NULL == "NULL"
Real(n) == [ null |-> FALSE, value |-> n * Scale ]
NullReal == [ null |-> TRUE, value |-> 0 ]

\* lines 14-68: ordered list of output CSV fields
summary_fieldnames ==
    << "country", "iso_code", "count", "total_capacity_gw", "max_capacity_mw",
       "count_distinct_fuel", "count_distinct_name", "count_distinct_owner",
       "count_distinct_source",
       "count_fuel_coal", "capacity_gw_fuel_coal",
       "count_fuel_gas", "capacity_gw_fuel_gas",
       "count_fuel_oil", "capacity_gw_fuel_oil",
       "count_fuel_petcoke", "capacity_gw_fuel_petcoke",
       "count_fuel_hydro", "capacity_gw_fuel_hydro",
       "count_fuel_nuclear", "capacity_gw_fuel_nuclear",
       "count_fuel_wind", "capacity_gw_fuel_wind",
       "count_fuel_solar", "capacity_gw_fuel_solar",
       "count_fuel_geothermal", "capacity_gw_fuel_geothermal",
       "count_fuel_biomass", "capacity_gw_fuel_biomass",
       "count_fuel_cogeneration", "capacity_gw_fuel_cogeneration",
       "count_fuel_waste", "capacity_gw_fuel_waste",
       "count_fuel_wave_and_tidal", "capacity_gw_fuel_wave_and_tidal",
       "count_fuel_other", "capacity_gw_fuel_other",
       "count_null_name", "count_null_pw_idnr", "count_null_capacity_mw",
       "count_null_year_of_capacity_data", "count_null_owner", "count_null_source",
       "count_null_url", "count_null_latitude", "count_null_longitude",
       "count_null_fuel", "count_null_generation_gwh_all",
       "count_generation_gwh_2012", "count_generation_gwh_2013",
       "count_generation_gwh_2014", "count_generation_gwh_2015",
       "count_generation_gwh_2016" >>

\* line 132: pw.make_fuel_thesaurus().keys(), the canonical fuels
fuel_list ==
    << "Coal", "Gas", "Oil", "Petcoke", "Hydro", "Nuclear", "Wind", "Solar",
       "Geothermal", "Biomass", "Cogeneration", "Waste", "Wave and Tidal", "Other" >>

\* line 134: '_'.join(fuel.lower().split())
fuel_column_name(fuel) ==
    CASE fuel = "Coal"           -> "coal"
      [] fuel = "Gas"            -> "gas"
      [] fuel = "Oil"            -> "oil"
      [] fuel = "Petcoke"        -> "petcoke"
      [] fuel = "Hydro"          -> "hydro"
      [] fuel = "Nuclear"        -> "nuclear"
      [] fuel = "Wind"           -> "wind"
      [] fuel = "Solar"          -> "solar"
      [] fuel = "Geothermal"     -> "geothermal"
      [] fuel = "Biomass"        -> "biomass"
      [] fuel = "Cogeneration"   -> "cogeneration"
      [] fuel = "Waste"          -> "waste"
      [] fuel = "Wave and Tidal" -> "wave_and_tidal"
      [] fuel = "Other"          -> "other"

\* pw.make_country_dictionary(): country name and iso code, the names in
\* alphabetical order
CountryDictionary ==
    << << "Argentina", "ARG" >>, << "Brazil", "BRA" >>, << "Chile", "CHL" >> >>

\* line 221: countries = {v.iso_code: k for k, v in pw.make_country_dictionary().iteritems()}
countries ==
    [ iso \in { CountryDictionary[i][2] : i \in 1..Len(CountryDictionary) } |->
        CountryDictionary[CHOOSE i \in 1..Len(CountryDictionary) :
                              CountryDictionary[i][2] = iso][1] ]

\* line 223: sorted(countries.keys(), key=lambda k: countries[k])
SortedCountryCodes == [ i \in 1..Len(CountryDictionary) |-> CountryDictionary[i][2] ]

\* str.upper()
Upper(s) ==
    CASE s = "arg" -> "ARG"
      [] s = "bra" -> "BRA"
      [] s = "xxx" -> "XXX"
      [] OTHER     -> s

\* every code passes as known
IsKnownCodeAny(iso_code) == TRUE

\* line 227: iso_code in countries
IsKnownCode(iso_code) == iso_code \in DOMAIN countries

\* a row of the table powerplants
Plant(country, name, pw_idnr, capacity_mw, plant_owner, fuels, coordinates, generation) ==
    [ country |-> country, name |-> name, pw_idnr |-> pw_idnr,
      capacity_mw |-> capacity_mw, year_of_capacity_data |-> "2015",
      owner |-> plant_owner, source |-> "Ministry", url |-> NULL,
      latitude |-> coordinates[1], longitude |-> coordinates[2],
      fuel1 |-> fuels[1], fuel2 |-> fuels[2], fuel3 |-> fuels[3], fuel4 |-> fuels[4],
      generation_gwh_2012 |-> NULL, generation_gwh_2013 |-> generation[1],
      generation_gwh_2014 |-> generation[2], generation_gwh_2015 |-> generation[3],
      generation_gwh_2016 |-> NULL ]

\* rows the table may hold: plants with one fuel, with two fuels, with the
\* same fuel in two columns, with a fuel that is no canonical fuel, without
\* fuel and capacity, with two fuels and a capacity of zero or of NULL
SamplePlants ==
    { Plant("Argentina", "Plant A", "ARG1", Real(1000), "Owner P",
            << "Gas", NULL, NULL, NULL >>, << "-34.6", "-58.4" >>, << NULL, NULL, "500" >>),
      Plant("Argentina", "Plant B", "ARG2", Real(2000), "Owner Q",
            << "Hydro", NULL, NULL, NULL >>, << NULL, NULL >>, << "900", "950", "1000" >>),
      Plant("Argentina", "Plant D", "ARG3", Real(3000), "Owner P",
            << "Gas", "Oil", NULL, NULL >>, << NULL, NULL >>, << NULL, NULL, NULL >>),
      Plant("Brazil", "Termo", "BRA2535", Real(2000), NULL,
            << "Thermal", NULL, NULL, NULL >>, << "-23", "-46" >>, << NULL, NULL, NULL >>),
      Plant("Brazil", NULL, "BRA7", NullReal, NULL,
            << NULL, NULL, NULL, NULL >>, << NULL, NULL >>, << NULL, NULL, NULL >>),
      Plant("Brazil", "Ventos", "BRA30001", Real(1000), "Owner X",
            << "Wind", NULL, "Wind", NULL >>, << NULL, NULL >>, << NULL, "80", NULL >>),
      Plant("Argentina", "Plant E", "ARG4", Real(0), "Owner Q",
            << "Coal", "Biomass", NULL, NULL >>, << NULL, NULL >>, << NULL, NULL, NULL >>),
      Plant("Brazil", "Usina", "BRA8", NullReal, "Owner X",
            << "Hydro", NULL, NULL, "Solar" >>, << NULL, NULL >>, << NULL, NULL, NULL >>) }

\* the database files a run may read
Databases == UNION { [ 1..n -> SamplePlants ] : n \in 0..MaxPlants }

\* args.country as argparse leaves it: None, or the list of the codes given
NoCountry == [ is_none |-> TRUE, list |-> << >> ]
CountryList(list) == [ is_none |-> FALSE, list |-> list ]

\* the rows WHERE (country=?)
OfCountry(powerplants, country) ==
    { i \in 1..Len(powerplants) : powerplants[i].country = country }

\* the fuel looked for in the first fuel column only
HasFuelFirstColumn(p, fuel) == p.fuel1 = fuel

\* lines 137-140, 146-149: fuel1="{fuel}" OR fuel2="{fuel}" OR fuel3="{fuel}" OR fuel4="{fuel}"
HasFuel(p, fuel) == p.fuel1 = fuel \/ p.fuel2 = fuel \/ p.fuel3 = fuel \/ p.fuel4 = fuel

\* SUM(capacity_mw) over the rows of S: NULL values are skipped, the sum of
\* no value is NULL
RECURSIVE SumCapacity(_, _)
SumCapacity(powerplants, S) ==
    IF S = {} THEN NullReal
    ELSE LET i == CHOOSE j \in S : TRUE
             rest == SumCapacity(powerplants, S \ {i})
             c == powerplants[i].capacity_mw
         IN  IF c.null THEN rest
             ELSE IF rest.null THEN c
             ELSE [ null |-> FALSE, value |-> c.value + rest.value ]

\* MAX(capacity_mw) over the rows of S that hold a value
MaxCapacity(powerplants, S) ==
    LET values == { powerplants[i].capacity_mw.value :
                      i \in { j \in S : ~ powerplants[j].capacity_mw.null } }
    IN  CHOOSE v \in values : \A w \in values : w <= v

\* x / 1000 of a float x
Over1000(x) == x \div 1000

\* lines 133-156: the two entries of every fuel of the list
RECURSIVE FuelSummaries(_, _, _)
FuelSummaries(powerplants, country, fuels) ==
    IF Len(fuels) = 0 THEN << >>
    ELSE LET fuel == Head(fuels)
             rows == { i \in OfCountry(powerplants, country) : HasFuel(powerplants[i], fuel) }
             fuel_capacity_mw == SumCapacity(powerplants, rows)
         IN  ("count_fuel_" \o fuel_column_name(fuel) :> Cardinality(rows))
             @@ ("capacity_gw_fuel_" \o fuel_column_name(fuel) :>
                    IF fuel_capacity_mw.null THEN 0 ELSE Over1000(fuel_capacity_mw.value))
             @@ FuelSummaries(powerplants, country, Tail(fuels))

\* COUNT(*) ... AND {field} IS NULL
CountNull(powerplants, country, field) ==
    Cardinality({ i \in OfCountry(powerplants, country) :
                    IF field = "capacity_mw" THEN powerplants[i].capacity_mw.null
                    ELSE powerplants[i][field] = NULL })

\* COUNT(*) ... AND {field} IS NOT NULL
CountNotNull(powerplants, country, field) ==
    Cardinality({ i \in OfCountry(powerplants, country) : powerplants[i][field] # NULL })

\* COUNT(DISTINCT({field})) ... AND {field} IS NOT NULL
CountDistinct(powerplants, country, field) ==
    Cardinality({ powerplants[i][field] : i \in OfCountry(powerplants, country) } \ { NULL })

\* the summary of a country without plants, its totals set to zero
EmptySummaryWithZeros(country, iso_code) ==
    ("country" :> country) @@ ("iso_code" :> iso_code) @@ ("count" :> 0)
    @@ ("total_capacity_gw" :> 0) @@ ("max_capacity_mw" :> 0)

\* lines 88-99: the summary of a country without plants
EmptySummary(country, iso_code) ==
    ("country" :> country) @@ ("iso_code" :> iso_code) @@ ("count" :> 0)

\* line 106: total_capacity_mw / 1000 raises TypeError when SUM(capacity_mw)
\* is NULL, that is when no plant of the country has a capacity
CanSummarize(powerplants, country) ==
    \/ OfCountry(powerplants, country) = {}
    \/ ~ SumCapacity(powerplants, OfCountry(powerplants, country)).null

\* lines 70-208: country_summary(db_conn, country, iso_code)
country_summary(powerplants, country, iso_code) ==
    LET rows == OfCountry(powerplants, country)
        p(i) == powerplants[i]
    IN  IF Cardinality(rows) = 0
        THEN EmptySummary(country, iso_code)
        ELSE ("country" :> country) @@ ("iso_code" :> iso_code)
             @@ ("count" :> Cardinality(rows))
             @@ ("total_capacity_gw" :> Over1000(SumCapacity(powerplants, rows).value))
             @@ ("max_capacity_mw" :> MaxCapacity(powerplants, rows))
             @@ ("count_distinct_fuel" :>
                    Cardinality(UNION { { p(i).fuel1, p(i).fuel2, p(i).fuel3, p(i).fuel4 } :
                                          i \in rows } \ { NULL }))
             @@ FuelSummaries(powerplants, country, fuel_list)
             @@ ("count_distinct_name" :> CountDistinct(powerplants, country, "name"))
             @@ ("count_distinct_owner" :> CountDistinct(powerplants, country, "owner"))
             @@ ("count_distinct_source" :> CountDistinct(powerplants, country, "source"))
             @@ ("count_null_name" :> CountNull(powerplants, country, "name"))
             @@ ("count_null_pw_idnr" :> CountNull(powerplants, country, "pw_idnr"))
             @@ ("count_null_capacity_mw" :> CountNull(powerplants, country, "capacity_mw"))
             @@ ("count_null_year_of_capacity_data" :>
                    CountNull(powerplants, country, "year_of_capacity_data"))
             @@ ("count_null_owner" :> CountNull(powerplants, country, "owner"))
             @@ ("count_null_source" :> CountNull(powerplants, country, "source"))
             @@ ("count_null_url" :> CountNull(powerplants, country, "url"))
             @@ ("count_null_latitude" :> CountNull(powerplants, country, "latitude"))
             @@ ("count_null_longitude" :> CountNull(powerplants, country, "longitude"))
             @@ ("count_null_fuel" :>
                    Cardinality({ i \in rows :
                                    /\ p(i).fuel1 = NULL /\ p(i).fuel2 = NULL
                                    /\ p(i).fuel3 = NULL /\ p(i).fuel4 = NULL }))
             @@ ("count_null_generation_gwh_all" :>
                    Cardinality({ i \in rows :
                                    /\ p(i).generation_gwh_2012 = NULL
                                    /\ p(i).generation_gwh_2013 = NULL
                                    /\ p(i).generation_gwh_2014 = NULL
                                    /\ p(i).generation_gwh_2015 = NULL
                                    /\ p(i).generation_gwh_2016 = NULL }))
             @@ ("count_generation_gwh_2012" :>
                    CountNotNull(powerplants, country, "generation_gwh_2012"))
             @@ ("count_generation_gwh_2013" :>
                    CountNotNull(powerplants, country, "generation_gwh_2013"))
             @@ ("count_generation_gwh_2014" :>
                    CountNotNull(powerplants, country, "generation_gwh_2014"))
             @@ ("count_generation_gwh_2015" :>
                    CountNotNull(powerplants, country, "generation_gwh_2015"))
             @@ ("count_generation_gwh_2016" :>
                    CountNotNull(powerplants, country, "generation_gwh_2016"))

\* a cell of the output file: the value written, or nothing
Cell(v) == << v >>
EmptyCell == << >>

\* line 243: writer.writerow(summary): the cells in the order of the field
\* names, an empty cell for a field the summary does not hold
RowWritten(summary) ==
    [ i \in 1..Len(summary_fieldnames) |->
        IF summary_fieldnames[i] \in DOMAIN summary
        THEN Cell(summary[summary_fieldnames[i]])
        ELSE EmptyCell ]

\* the summaries requested on the command line: --country absent, or a list
\* of codes
Requests ==
    { NoCountry,
      CountryList(<< "ARG" >>),
      CountryList(<< "CHL" >>),
      CountryList(<< "bra", "CHL" >>),
      CountryList(<< "CHL", "ARG" >>),
      CountryList(<< "ARG", "XXX" >>),
      CountryList(<< "xxx" >>),
      CountryList(<< "BRA", "arg", "BRA" >>) }

\* lines 213-218: the arguments are parsed, nothing else has happened
InitSUM ==
    /\ ARGNotRun
    /\ BRANotRun
    /\ pc_SUM = "args"
    /\ args_country \in Requests
    /\ database_file \in Databases
    /\ db_conn = [ open |-> FALSE, powerplants |-> << >> ]
    /\ country_summaries = << >>
    /\ summarized = 0
    /\ fout = [ opened |-> FALSE, header |-> << >>, rows |-> << >> ]
    /\ written = 0

\* lines 221-228: prepare list of country codes
PrepareCountryCodes ==
    /\ pc_SUM = "args"
    /\ IF args_country.is_none
       THEN /\ args_country' = CountryList(SortedCountryCodes)
            /\ pc_SUM' = "load"
       ELSE LET upper == [ i \in 1..Len(args_country.list) |-> Upper(args_country.list[i]) ]
            IN  /\ args_country' = CountryList(upper)
                /\ pc_SUM' = IF \A i \in 1..Len(upper) : IsKnownCode(upper[i])
                             THEN "load"
                             ELSE "ValueError"
    /\ UNCHANGED << database_file, db_conn, country_summaries, summarized, fout, written >>
    /\ UNCHANGED << varsARG, varsBRA >>

\* lines 231-234: pw.copy_csv_to_sqlite(args.input, ...); country_summaries = {}
LoadDatabase ==
    /\ pc_SUM = "load"
    /\ db_conn' = [ open |-> TRUE, powerplants |-> database_file ]
    /\ country_summaries' = << >>
    /\ pc_SUM' = "summarize"
    /\ UNCHANGED << args_country, database_file, summarized, fout, written >>
    /\ UNCHANGED << varsARG, varsBRA >>

\* lines 235-236: one turn of the loop over args.country
SummarizeCountry ==
    /\ pc_SUM = "summarize"
    /\ summarized < Len(args_country.list)
    /\ LET iso_code == args_country.list[summarized + 1]
       IN  IF iso_code \notin DOMAIN countries
           THEN \* countries[iso_code]
                /\ pc_SUM' = "KeyError"
                /\ UNCHANGED << country_summaries, summarized >>
           ELSE IF ~ CanSummarize(db_conn.powerplants, countries[iso_code])
           THEN \* line 106
                /\ pc_SUM' = "TypeError"
                /\ UNCHANGED << country_summaries, summarized >>
           ELSE /\ country_summaries' =
                     [ k \in (DOMAIN country_summaries) \cup {iso_code} |->
                         IF k = iso_code
                         THEN country_summary(db_conn.powerplants, countries[iso_code], iso_code)
                         ELSE country_summaries[k] ]
                /\ summarized' = summarized + 1
                /\ UNCHANGED pc_SUM
    /\ UNCHANGED << args_country, database_file, db_conn, fout, written >>
    /\ UNCHANGED << varsARG, varsBRA >>

\* lines 239-241: the output file is opened for writing and gets its header
OpenOutput ==
    /\ pc_SUM = "summarize"
    /\ summarized = Len(args_country.list)
    /\ fout' = [ opened |-> TRUE, header |-> summary_fieldnames, rows |-> << >> ]
    /\ pc_SUM' = "write"
    /\ UNCHANGED << args_country, database_file, db_conn, country_summaries,
                    summarized, written >>
    /\ UNCHANGED << varsARG, varsBRA >>

\* lines 242-243: one turn of the loop that writes the rows
WriteRow ==
    /\ pc_SUM = "write"
    /\ written < Len(args_country.list)
    /\ fout' = [ fout EXCEPT !.rows =
                   Append(@, RowWritten(country_summaries[args_country.list[written + 1]])) ]
    /\ written' = written + 1
    /\ UNCHANGED << pc_SUM, args_country, database_file, db_conn, country_summaries,
                    summarized >>
    /\ UNCHANGED << varsARG, varsBRA >>

\* line 242: the list is exhausted, the file is closed
CloseOutput ==
    /\ pc_SUM = "write"
    /\ written = Len(args_country.list)
    /\ pc_SUM' = "done"
    /\ UNCHANGED << args_country, database_file, db_conn, country_summaries,
                    summarized, fout, written >>
    /\ UNCHANGED << varsARG, varsBRA >>

NextSUM ==
    \/ PrepareCountryCodes
    \/ LoadDatabase
    \/ SummarizeCountry
    \/ OpenOutput
    \/ WriteRow
    \/ CloseOutput

SpecSUM == InitSUM /\ [][NextSUM]_vars

(***************************************************************************)
(* Properties of the summary.                                              *)
(***************************************************************************)
\* the plants of the country with the given code in the database file
PlantsOf(iso) == { i \in 1..Len(database_file) : database_file[i].country = countries[iso] }

\* C12: a valid country code without any plant in the database raises no
\* error and gets a summary that holds count = 0 and no other aggregate; the
\* output has one row per requested code, in the order of the request, that
\* country's row included.
C12_CountryWithoutPlants ==
    /\ \A iso \in DOMAIN country_summaries :
          PlantsOf(iso) = {} =>
              /\ DOMAIN country_summaries[iso] = { "country", "iso_code", "count" }
              /\ country_summaries[iso]["count"] = 0
    /\ pc_SUM \in { "TypeError", "KeyError" } =>
          /\ args_country.list[summarized + 1] \in DOMAIN countries
          /\ PlantsOf(args_country.list[summarized + 1]) # {}
    /\ pc_SUM = "done" => Len(fout.rows) = Len(args_country.list)
    /\ \A i \in 1..Len(fout.rows) :
          /\ fout.rows[i][2] = << args_country.list[i] >>
          /\ PlantsOf(args_country.list[i]) = {} =>
                /\ fout.rows[i][1] = << countries[args_country.list[i]] >>
                /\ fout.rows[i][3] = << 0 >>
                /\ \A k \in 4..Len(summary_fieldnames) : fout.rows[i][k] = << >>

\* C12 witness: the run has ended; of the two codes requested the first has
\* no plant in a database that holds plants, and both have their row.
C12_Witness ==
    /\ pc_SUM = "done"
    /\ Len(args_country.list) = 2
    /\ Len(fout.rows) = 2
    /\ PlantsOf(args_country.list[1]) = {}
    /\ PlantsOf(args_country.list[2]) # {}
    /\ fout.rows[1][3] = << 0 >>
    /\ fout.rows[1][4] = << >>
    /\ fout.rows[2][4] # << >>

\* the canonical fuels, and those a plant names in its fuel columns
Canonical == { fuel_list[k] : k \in 1..Len(fuel_list) }
CategoriesOf(p) == { p.fuel1, p.fuel2, p.fuel3, p.fuel4 } \cap Canonical

\* the capacity of a plant, nothing when it is NULL
CapacityOf(p) == IF p.capacity_mw.null THEN 0 ELSE p.capacity_mw.value

\* the sum of the capacity_gw_fuel_* entries of a summary
FuelCapacitySum(summary) ==
    SumOver(1..Len(fuel_list),
            [ k \in 1..Len(fuel_list) |->
                summary["capacity_gw_fuel_" \o fuel_column_name(fuel_list[k])] ])

\* the capacity, in GW, of the plants of a country that match no canonical fuel
UnmatchedCapacity(iso) ==
    LET rows == { i \in PlantsOf(iso) : CategoriesOf(database_file[i]) = {} }
    IN  SumOver(rows, [ i \in rows |-> CapacityOf(database_file[i]) ]) \div 1000

\* C13 as stated: for every country with at least one plant, the capacities
\* of all fuel categories together with the capacity of the plants that match
\* no category add up to the total capacity.
C13_FuelCapacitiesAddUpToTotal ==
    \A iso \in DOMAIN country_summaries :
        country_summaries[iso]["count"] >= 1 =>
            FuelCapacitySum(country_summaries[iso]) + UnmatchedCapacity(iso)
                = country_summaries[iso]["total_capacity_gw"]

\* C13 amended: a plant's capacity is counted in every fuel category it
\* names in fuel1..fuel4, a capacity of NULL as nothing.  So the capacities
\* of all categories together with the capacity of the plants that match no
\* category add up to the sum, over the plants, of the capacity times the
\* number of categories the plant names (one for a plant that names none),
\* and they exceed the total capacity by the sum of the capacity times the
\* number of further categories.  With capacities that are not negative
\* they equal the total capacity exactly when every plant that names more
\* than one category has a capacity of zero or of NULL, and are greater
\* otherwise.
C13_FuelCapacitiesCountEveryCategory ==
    \A iso \in DOMAIN country_summaries :
        country_summaries[iso]["count"] >= 1 =>
            LET rows == PlantsOf(iso)
                times(i) == IF CategoriesOf(database_file[i]) = {} THEN 1
                            ELSE Cardinality(CategoriesOf(database_file[i]))
                sum == FuelCapacitySum(country_summaries[iso]) + UnmatchedCapacity(iso)
                total == country_summaries[iso]["total_capacity_gw"]
                once == \A i \in rows : times(i) = 1 \/ CapacityOf(database_file[i]) = 0
            IN  /\ sum = SumOver(rows, [ i \in rows |->
                                CapacityOf(database_file[i]) * times(i) ]) \div 1000
                /\ sum - total =
                      SumOver(rows, [ i \in rows |->
                                CapacityOf(database_file[i]) * (times(i) - 1) ]) \div 1000
                /\ (\A i \in rows : CapacityOf(database_file[i]) >= 0) =>
                      /\ once <=> sum = total
                      /\ ~ once <=> sum > total

\* C13 witness: two countries are summarized.  In one a plant names the same
\* fuel twice and another names two categories and has no capacity: the
\* capacities add up to the total.  In the other a plant with a capacity
\* names two categories: the capacities exceed the total.
C13_Witness ==
    /\ \E iso \in DOMAIN country_summaries :
          /\ country_summaries[iso]["count"] >= 2
          /\ \E i \in PlantsOf(iso) :
                /\ Cardinality(CategoriesOf(database_file[i])) = 2
                /\ database_file[i].capacity_mw.null
          /\ country_summaries[iso]["capacity_gw_fuel_wind"] > 0
          /\ FuelCapacitySum(country_summaries[iso]) + UnmatchedCapacity(iso)
                = country_summaries[iso]["total_capacity_gw"]
    /\ \E iso \in DOMAIN country_summaries :
          /\ country_summaries[iso]["count"] >= 1
          /\ \E i \in PlantsOf(iso) :
                /\ Cardinality(CategoriesOf(database_file[i])) = 2
                /\ CapacityOf(database_file[i]) > 0
          /\ FuelCapacitySum(country_summaries[iso]) + UnmatchedCapacity(iso)
                > country_summaries[iso]["total_capacity_gw"]

\* a code of the request is no known ISO code
InvalidRequest ==
    /\ ~ args_country.is_none
    /\ \E i \in 1..Len(args_country.list) :
          Upper(args_country.list[i]) \notin DOMAIN countries

\* C14: when a requested code is no known ISO code the run ends with an
\* error before the database is loaded, before any summary is computed and
\* before the output file is opened or written.
C14_InvalidCodeAbortsBeforeAnyWork ==
    /\ [] (InvalidRequest =>
              /\ pc_SUM \in { "args", "ValueError" }
              /\ ~ db_conn.open
              /\ country_summaries = << >>
              /\ ~ fout.opened
              /\ fout.rows = << >>)
    /\ [][ (InvalidRequest /\ pc_SUM = "args") => pc_SUM' = "ValueError" ]_vars

\* C14 witness: the run has ended with the error for a request whose first
\* code is known and whose second is not, over a database that holds plants.
C14_Witness ==
    /\ pc_SUM = "ValueError"
    /\ Len(args_country.list) = 2
    /\ args_country.list[1] \in DOMAIN countries
    /\ args_country.list[2] \notin DOMAIN countries
    /\ PlantsOf(args_country.list[1]) # {}
    /\ ~ db_conn.open

====
